---- MODULE Spec2Model ----
(***************************************************************************)
(* transfer2go: the Trivial File Catalog (model.Catalog: Add, Records) and *)
(* the agent registration protocol (server.registerAtAgents, register,    *)
(* Server).                                                                *)
(*                                                                         *)
(* The catalog part models one agent process: the three tables of the     *)
(* catalog database and the Add calls that the process's request handlers *)
(* and dispatcher workers run concurrently, one database statement per    *)
(* step.  The SQL text (insert_datasets, id_datasets, ...) and the table  *)
(* schema are loaded from template files at run time; the database's      *)
(* behaviour on them is modelled from the specification.                   *)
(***************************************************************************)
EXTENDS Integers, Sequences, FiniteSets, TLC

(***************************************************************************)
(* Bounds of the model.                                                    *)
(***************************************************************************)
\* Add calls started in one run
MaxAdds == 2

\* the goroutines of the process that call Catalog.Add
Workers == {"w1", "w2"}

\* the entries Add is called with: a file, the same file with another
\* physical copy, the same block named under another dataset, the same file
\* name under another block, and an entry whose Lfn is the empty string
Entry(l, p, d, b, n, h) ==
    [Lfn |-> l, Pfn |-> p, Dataset |-> d, Block |-> b, Bytes |-> n, Hash |-> h]

CatalogEntry ==
    {Entry("l1", "/a/l1", "d1", "b1", 10, "h1"),
     Entry("l1", "/b/l1", "d1", "b1", 20, "h2"),
     Entry("l1", "/a/l1", "d2", "b1", 10, "h1"),
     Entry("l1", "/a/l1", "d1", "b2", 10, "h1"),
     Entry("", "/a/l0", "d1", "b1", 30, "h3")}

\* the catalog filters Records is called with
TransferRequest == [File : {"", "l1"}, Block : {"", "b1", "b2"},
                    Dataset : {"", "d1", "d2"}]

(***************************************************************************)
(* Errors.  An error is its message; nil is the string "nil".              *)
(***************************************************************************)
Nil == "nil"
UniqueErr == "UNIQUE constraint failed"
OtherErr == "disk I/O error"

\* strings.Contains(e.Error(), "UNIQUE")
ContainsUNIQUE(msg) == msg = UniqueErr

VARIABLES
    datasets,   \* table DATASETS: the dataset names, the id of a row is its index
    blocks,     \* table BLOCKS: the block names, the id of a row is its index
    files,      \* table FILES: rows [lfn, pfn, blockid, datasetid, bytes, hash]
    alive,      \* the process runs (FALSE after log.Fatal)
    apc,        \* per worker: the statement of Add it is at
    entry,      \* per worker: the argument of its Add call
    did, bid,   \* per worker: the locals did, bid of Add
    e, err,     \* per worker: the locals e, err of Add
    tx,         \* per worker: the transaction Add began: none, open, committed
    wrote,      \* per worker: the rows its current Add call inserted
    absent,     \* per worker: no entry had the (Dataset, Block, Lfn) of its
                \* call when the call's file insert was executed
    ret,        \* per worker: what its last Add call returned
    prevAbsent, \* per worker: absent, of its last Add call that returned
    fatalAt,    \* the statement log.Fatal was reached at
    stored,     \* the entries whose file row was inserted, in row order
    prev,       \* per worker: the entry of its last Add call that returned
    twice,      \* per worker: its last two Add calls that returned had one entry
    nAdds,      \* Add calls started
    recReq,     \* the filter of the last Records call
    recOut,     \* what the last Records call returned
    recErr,     \* the error DB.Query gave the last Records call
    mpc,        \* per agent: where the Server call of its process is
    aName,      \* per agent: the bootstrap address Server was given
    agents,     \* per agent: _agents, its membership table alias -> url
    todo,       \* per agent: the aliases its announcement loop has not visited
    listening,  \* per agent: its process accepts HTTP requests
    sent,       \* per agent: the requests registration sent, with their responses
    returned,   \* per agent: the table the bootstrap peer returned to it
    diedAt,     \* per agent: the step log.Fatal ended its process at
    upAtStart,  \* per agent: the agents that were serving when it started
    _alias,     \* per agent: _alias, the name its Server call was configured with
    catalog,    \* per agent: model.TFC.Type, model.DB and model.DBSQL
    bare,       \* the agents whose registration accessed _agents with no lock held
    gpc,        \* per caller: where its GoDeferFunc call is
    fpc,        \* per caller: where the goroutine its call spawned is
    apiOf,      \* per caller: the argument api of its call
    fnOf,       \* per caller: the argument f of its call, by what f does
    panicking,  \* per caller: the value the spawned goroutine panics with
    chSent,     \* per caller: the messages sent on ch
    chRecv,     \* per caller: the messages received from ch
    got         \* per caller: err, the message the caller received

dbVars == <<datasets, blocks, files>>
addVars == <<apc, entry, did, bid, e, err, tx, wrote, absent, ret,
             prev, twice, prevAbsent, fatalAt, stored, nAdds>>
recVars == <<recReq, recOut, recErr>>
catVars == <<dbVars, alive, addVars, recVars>>

meshVars == <<mpc, aName, agents, todo, listening, sent, returned, diedAt,
              upAtStart, _alias, catalog, bare>>

deferVars == <<gpc, fpc, apiOf, fnOf, panicking, chSent, chRecv, got>>

vars == <<catVars, meshVars, deferVars>>

NoEntry == [Lfn |-> "-", Pfn |-> "-", Dataset |-> "-", Block |-> "-",
            Bytes |-> 0, Hash |-> "-"]
NoRequest == [File |-> "-", Block |-> "-", Dataset |-> "-"]

Range(s) == {s[i] : i \in 1..Len(s)}

(***************************************************************************)
(* The catalog database.                                                   *)
(***************************************************************************)

\* INSERT INTO DATASETS / BLOCKS (name): the name column is unique
InsertName(table, name) ==
    IF name \in Range(table)
    THEN [err |-> UniqueErr, table |-> table]
    ELSE [err |-> Nil, table |-> Append(table, name)]

\* SELECT id FROM DATASETS / BLOCKS WHERE name = ?: the ids, in row order
SelectIds(table, name) ==
    LET Ids == {i \in 1..Len(table) : table[i] = name}
        Upto(n) == Cardinality({i \in Ids : i <= n})
    IN  [k \in 1..Cardinality(Ids) |->
            CHOOSE i \in Ids : Upto(i) = k]

\* INSERT INTO FILES: (lfn, blockid, datasetid) is unique
InsertRow(table, row) ==
    IF \E i \in 1..Len(table) :
          /\ table[i].lfn = row.lfn
          /\ table[i].blockid = row.blockid
          /\ table[i].datasetid = row.datasetid
    THEN [err |-> UniqueErr, table |-> table]
    ELSE [err |-> Nil, table |-> Append(table, row)]

\* files_blocks_datasets: FILES F JOIN BLOCKS B ON F.BLOCKID = B.ID
\* JOIN DATASETS D ON F.DATASETID = D.ID, the columns the query selects
Joinable(row) ==
    /\ row.blockid \in 1..Len(blocks)
    /\ row.datasetid \in 1..Len(datasets)

Joined(row) ==
    [dataset |-> datasets[row.datasetid], block |-> blocks[row.blockid],
     lfn |-> row.lfn, pfn |-> row.pfn, bytes |-> row.bytes, hash |-> row.hash]

\* the file rows of the catalog that are an entry with en's (Dataset, Block, Lfn)
RowsOf(en) ==
    {i \in 1..Len(files) :
        /\ Joinable(files[i])
        /\ Joined(files[i]).dataset = en.Dataset
        /\ Joined(files[i]).block = en.Block
        /\ Joined(files[i]).lfn = en.Lfn}

HasEntry(en) == RowsOf(en) # {}

\* the rows of DATASETS / BLOCKS that hold a name
NameRows(table, name) == {i \in 1..Len(table) : table[i] = name}

(***************************************************************************)
(* Catalog.Add.  Every statement of Add is one step.  DB.Begin starts a    *)
(* transaction tx, but the statements that follow are executed on DB, not  *)
(* on tx: each of them runs on a connection of its own and takes effect    *)
(* when it is executed.                                                    *)
(***************************************************************************)

\* the caller of Records holds its result when the call returns; the next
\* step of the process drops it
RecordsForgotten ==
    /\ recReq' = NoRequest
    /\ recOut' = <<>>
    /\ recErr' = Nil

\* check(msg, err): log.Fatalf ends the process
check(c, error) ==
    IF error # Nil
    THEN /\ alive' = FALSE
         /\ fatalAt' = apc[c]
         /\ apc' = [apc EXCEPT ![c] = "fatal"]
    ELSE /\ alive' = alive
         /\ fatalAt' = fatalAt
         /\ apc' = apc

\* a dataset insert that does not tolerate the uniqueness conflict
DatasetInsertFatalStrict(error) == error # Nil

\* Add, the dataset insert: is its error e fatal?
DatasetInsertFatal(error) == error # Nil /\ ~ContainsUNIQUE(error)

\* a block insert whose error is never fatal
BlockInsertFatalNever(error) == FALSE

\* Add, the block insert: is its error e fatal?
BlockInsertFatal(error) == error # Nil /\ ~ContainsUNIQUE(error)

\* a file insert that does not tolerate the uniqueness conflict
FileInsertFatalStrict(eBlock, errFile) == errFile # Nil

\* Add, the file insert: the condition tests e, the error of the block
\* insert, and hands err, the error of the file insert, to check
FileInsertFatal(eBlock, errFile) ==
    eBlock # Nil /\ ~ContainsUNIQUE(eBlock) /\ errFile # Nil

\* for rows.Next() { rows.Scan(&id) }: the last row's id, or the id as it was
ScanIds(ids, id) == IF Len(ids) = 0 THEN id ELSE ids[Len(ids)]

\* the name the dataset id is looked up by, and the block id
DatasetKey(en) == en.Dataset
BlockKey(en) == en.Block

\* a file insert that hands the two ids over in the other order
FilesRowSwapped(en, b, d) ==
    [lfn |-> en.Lfn, pfn |-> en.Pfn, blockid |-> d, datasetid |-> b,
     bytes |-> en.Bytes, hash |-> en.Hash]

\* DB.Exec(insert_files, entry.Lfn, entry.Pfn, bid, did, entry.Bytes, entry.Hash)
FilesRow(en, b, d) ==
    [lfn |-> en.Lfn, pfn |-> en.Pfn, blockid |-> b, datasetid |-> d,
     bytes |-> en.Bytes, hash |-> en.Hash]

\* tx, e := DB.Begin(); check("Unable to setup transaction", e)
AddBegin(c, en, fault) ==
    /\ alive
    /\ apc[c] = "idle"
    /\ nAdds < MaxAdds
    /\ nAdds' = nAdds + 1
    /\ entry' = [entry EXCEPT ![c] = en]
    /\ did' = [did EXCEPT ![c] = 0]
    /\ bid' = [bid EXCEPT ![c] = 0]
    /\ err' = [err EXCEPT ![c] = Nil]
    /\ wrote' = [wrote EXCEPT ![c] = {}]
    /\ LET r == IF fault THEN OtherErr ELSE Nil
       IN  /\ e' = [e EXCEPT ![c] = r]
           /\ tx' = [tx EXCEPT ![c] = IF r = Nil THEN "open" ELSE "none"]
           /\ IF r # Nil
              THEN check(c, r)
              ELSE /\ UNCHANGED <<alive, fatalAt>>
                   /\ apc' = [apc EXCEPT ![c] = "insert_datasets"]
    /\ UNCHANGED <<dbVars, absent, ret, prev, twice, prevAbsent, stored>>
    /\ RecordsForgotten
    /\ UNCHANGED <<meshVars, deferVars>>

\* _, e = DB.Exec(insert_datasets, entry.Dataset)
AddInsertDataset(c, fault) ==
    /\ alive
    /\ apc[c] = "insert_datasets"
    /\ LET r == IF fault THEN [err |-> OtherErr, table |-> datasets]
                ELSE InsertName(datasets, entry[c].Dataset)
       IN  /\ datasets' = r.table
           /\ e' = [e EXCEPT ![c] = r.err]
           /\ wrote' = [wrote EXCEPT ![c] =
                  IF r.err = Nil
                  THEN @ \cup {[table |-> "datasets", id |-> Len(r.table)]}
                  ELSE @]
           /\ IF DatasetInsertFatal(r.err)
              THEN check(c, r.err)
              ELSE /\ UNCHANGED <<alive, fatalAt>>
                   /\ apc' = [apc EXCEPT ![c] = "id_datasets"]
    /\ UNCHANGED <<blocks, files, entry, did, bid, err, tx, absent, ret, prev,
                   twice, prevAbsent, stored, nAdds>>
    /\ RecordsForgotten
    /\ UNCHANGED <<meshVars, deferVars>>

\* rows, err := DB.Query(id_datasets, entry.Dataset); rows.Scan(&did)
\* fault: "none", "query" (DB.Query fails), "scan" (rows.Scan fails), "next"
\* (rows.Next fails before the first row: the loop ends, and rows.Err is
\* not looked at)
AddIdDataset(c, fault) ==
    /\ alive
    /\ apc[c] = "id_datasets"
    /\ LET ids == SelectIds(datasets, DatasetKey(entry[c]))
       IN  /\ fault = "scan" => Len(ids) > 0
           /\ err' = [err EXCEPT ![c] =
                  IF fault \in {"none", "next"} THEN Nil ELSE OtherErr]
           /\ did' = [did EXCEPT ![c] =
                  CASE fault = "none" -> ScanIds(ids, @)
                    [] fault = "next" -> ScanIds(<<>>, @)
                    [] OTHER -> @]
           /\ IF fault \in {"query", "scan"}
              THEN check(c, OtherErr)
              ELSE /\ UNCHANGED <<alive, fatalAt>>
                   /\ apc' = [apc EXCEPT ![c] = "insert_blocks"]
    /\ UNCHANGED <<dbVars, entry, bid, e, tx, wrote, absent, ret, prev, twice,
                   prevAbsent, stored, nAdds>>
    /\ RecordsForgotten
    /\ UNCHANGED <<meshVars, deferVars>>

\* _, e = DB.Exec(insert_blocks, entry.Block)
AddInsertBlock(c, fault) ==
    /\ alive
    /\ apc[c] = "insert_blocks"
    /\ LET r == IF fault THEN [err |-> OtherErr, table |-> blocks]
                ELSE InsertName(blocks, entry[c].Block)
       IN  /\ blocks' = r.table
           /\ e' = [e EXCEPT ![c] = r.err]
           /\ wrote' = [wrote EXCEPT ![c] =
                  IF r.err = Nil
                  THEN @ \cup {[table |-> "blocks", id |-> Len(r.table)]}
                  ELSE @]
           /\ IF BlockInsertFatal(r.err)
              THEN check(c, r.err)
              ELSE /\ UNCHANGED <<alive, fatalAt>>
                   /\ apc' = [apc EXCEPT ![c] = "id_blocks"]
    /\ UNCHANGED <<datasets, files, entry, did, bid, err, tx, absent, ret, prev,
                   twice, prevAbsent, stored, nAdds>>
    /\ RecordsForgotten
    /\ UNCHANGED <<meshVars, deferVars>>

\* rows, err = DB.Query(id_blocks, entry.Block); rows.Scan(&bid)
AddIdBlock(c, fault) ==
    /\ alive
    /\ apc[c] = "id_blocks"
    /\ LET ids == SelectIds(blocks, BlockKey(entry[c]))
       IN  /\ fault = "scan" => Len(ids) > 0
           /\ err' = [err EXCEPT ![c] =
                  IF fault \in {"none", "next"} THEN Nil ELSE OtherErr]
           /\ bid' = [bid EXCEPT ![c] =
                  CASE fault = "none" -> ScanIds(ids, @)
                    [] fault = "next" -> ScanIds(<<>>, @)
                    [] OTHER -> @]
           /\ IF fault \in {"query", "scan"}
              THEN check(c, OtherErr)
              ELSE /\ UNCHANGED <<alive, fatalAt>>
                   /\ apc' = [apc EXCEPT ![c] = "insert_files"]
    /\ UNCHANGED <<dbVars, entry, did, e, tx, wrote, absent, ret, prev, twice,
                   prevAbsent, stored, nAdds>>
    /\ RecordsForgotten
    /\ UNCHANGED <<meshVars, deferVars>>

\* _, err = DB.Exec(insert_files, ...); if e != nil { if !UNIQUE { check(.., err) } }
AddInsertFile(c, fault) ==
    /\ alive
    /\ apc[c] = "insert_files"
    /\ LET r == IF fault THEN [err |-> OtherErr, table |-> files]
                ELSE InsertRow(files, FilesRow(entry[c], bid[c], did[c]))
       IN  /\ files' = r.table
           /\ stored' = IF r.err = Nil THEN Append(stored, entry[c]) ELSE stored
           /\ absent' = [absent EXCEPT ![c] = ~HasEntry(entry[c])]
           /\ err' = [err EXCEPT ![c] = r.err]
           /\ wrote' = [wrote EXCEPT ![c] =
                  IF r.err = Nil
                  THEN @ \cup {[table |-> "files", id |-> Len(r.table)]}
                  ELSE @]
           /\ IF FileInsertFatal(e[c], r.err)
              THEN check(c, r.err)
              ELSE /\ UNCHANGED <<alive, fatalAt>>
                   /\ apc' = [apc EXCEPT ![c] = "commit"]
    /\ UNCHANGED <<datasets, blocks, entry, did, bid, e, tx, ret, prev, twice,
                   prevAbsent, nAdds>>
    /\ RecordsForgotten
    /\ UNCHANGED <<meshVars, deferVars>>

\* tx.Commit(); return nil: the transaction holds no statement, committing
\* it changes no table
AddCommit(c) ==
    /\ alive
    /\ apc[c] = "commit"
    /\ ret' = [ret EXCEPT ![c] = Nil]
    /\ prev' = [prev EXCEPT ![c] = entry[c]]
    /\ twice' = [twice EXCEPT ![c] = (prev[c] = entry[c] /\ ret[c] = Nil)]
    /\ prevAbsent' = [prevAbsent EXCEPT ![c] = absent[c]]
    /\ absent' = [absent EXCEPT ![c] = FALSE]
    /\ apc' = [apc EXCEPT ![c] = "idle"]
    /\ entry' = [entry EXCEPT ![c] = NoEntry]
    /\ did' = [did EXCEPT ![c] = 0]
    /\ bid' = [bid EXCEPT ![c] = 0]
    /\ e' = [e EXCEPT ![c] = Nil]
    /\ err' = [err EXCEPT ![c] = Nil]
    /\ tx' = [tx EXCEPT ![c] = "none"]
    /\ wrote' = [wrote EXCEPT ![c] = {}]
    /\ UNCHANGED <<dbVars, alive, fatalAt, stored, nAdds>>
    /\ RecordsForgotten
    /\ UNCHANGED <<meshVars, deferVars>>

(***************************************************************************)
(* Catalog.Records.                                                        *)
(***************************************************************************)

\* DBTYPE: sqlite3 is the one database driver the program links
DBTYPE == "sqlite3"

\* placeholder(pholder)
placeholder(pholder) ==
    IF DBTYPE = "ora" \/ DBTYPE = "oci8" THEN ":" \o pholder
    ELSE IF DBTYPE = "PostgreSQL" THEN "$" \o pholder
    ELSE "?"

\* the conditions Records appends to the statement, in the order it appends them
RecordsCond(req) ==
    (IF req.File # "" THEN <<[col |-> "F.LFN", ph |-> placeholder("lfn")]>> ELSE <<>>)
    \o (IF req.Block # "" THEN <<[col |-> "B.BLOCK", ph |-> placeholder("block")]>> ELSE <<>>)
    \o (IF req.Dataset # "" THEN <<[col |-> "D.DATASET", ph |-> placeholder("dataset")]>> ELSE <<>>)

\* values appended in the order Dataset, Block, File
RecordsValsReversed(req) ==
    (IF req.Dataset # "" THEN <<req.Dataset>> ELSE <<>>)
    \o (IF req.Block # "" THEN <<req.Block>> ELSE <<>>)
    \o (IF req.File # "" THEN <<req.File>> ELSE <<>>)

\* the values Records binds to the placeholders, in the order it appends them
RecordsVals(req) ==
    (IF req.File # "" THEN <<req.File>> ELSE <<>>)
    \o (IF req.Block # "" THEN <<req.Block>> ELSE <<>>)
    \o (IF req.Dataset # "" THEN <<req.Dataset>> ELSE <<>>)

\* the value of a column of the join in a joined row
Column(jr, col) ==
    CASE col = "F.LFN" -> jr.lfn
      [] col = "B.BLOCK" -> jr.block
      [] col = "D.DATASET" -> jr.dataset

\* DB.Query(stm + " WHERE c1 AND c2 ...", vals...): the i-th placeholder is
\* bound to the i-th value; the rows of the join that satisfy every condition
Query(cond, vals) ==
    LET Test(row) ==
            /\ Joinable(row)
            /\ \A i \in 1..Len(cond) : Column(Joined(row), cond[i].col) = vals[i]
        rows == SelectSeq(files, Test)
    IN  [i \in 1..Len(rows) |-> Joined(rows[i])]

\* rows.Scan(&rec.Dataset, &rec.Block, &rec.Lfn, &rec.Pfn, &rec.Bytes, &rec.Hash)
ScanEntry(jr) ==
    [Lfn |-> jr.lfn, Pfn |-> jr.pfn, Dataset |-> jr.dataset, Block |-> jr.block,
     Bytes |-> jr.bytes, Hash |-> jr.hash]

\* what Records(req) returns when DB.Query succeeds
RecordsOut(req) ==
    LET rows == Query(RecordsCond(req), RecordsVals(req))
    IN  [i \in 1..Len(rows) |-> ScanEntry(rows[i])]

\* a Records that hands the error of DB.Query to check
RecordsQueryFatalStrict(error) == error # Nil

\* Records: the error of DB.Query is logged with log.Printf, not fatal
RecordsQueryFatal(error) == FALSE

\* Records(req); fault: DB.Query fails
Records(req, fault) ==
    /\ alive
    /\ recReq = NoRequest
    /\ recReq' = req
    /\ recErr' = IF fault THEN OtherErr ELSE Nil
    /\ recOut' = IF fault THEN <<>> ELSE RecordsOut(req)
    /\ alive' = ~RecordsQueryFatal(recErr')
    /\ UNCHANGED <<dbVars, addVars>>
    /\ UNCHANGED <<meshVars, deferVars>>

(***************************************************************************)
(* The catalog of one running agent.                                       *)
(***************************************************************************)
CatInit ==
    /\ datasets = <<>>
    /\ blocks = <<>>
    /\ files = <<>>
    /\ alive = TRUE
    /\ apc = [c \in Workers |-> "idle"]
    /\ entry = [c \in Workers |-> NoEntry]
    /\ did = [c \in Workers |-> 0]
    /\ bid = [c \in Workers |-> 0]
    /\ e = [c \in Workers |-> Nil]
    /\ err = [c \in Workers |-> Nil]
    /\ tx = [c \in Workers |-> "none"]
    /\ wrote = [c \in Workers |-> {}]
    /\ absent = [c \in Workers |-> FALSE]
    /\ ret = [c \in Workers |-> "none"]
    /\ prev = [c \in Workers |-> NoEntry]
    /\ twice = [c \in Workers |-> FALSE]
    /\ prevAbsent = [c \in Workers |-> FALSE]
    /\ fatalAt = "none"
    /\ stored = <<>>
    /\ nAdds = 0
    /\ recReq = NoRequest
    /\ recOut = <<>>
    /\ recErr = Nil

\* the database executes every statement: an insert fails only on a
\* uniqueness conflict
CatNext ==
    \/ \E c \in Workers, en \in CatalogEntry : AddBegin(c, en, FALSE)
    \/ \E c \in Workers : AddInsertDataset(c, FALSE)
    \/ \E c \in Workers : AddIdDataset(c, "none")
    \/ \E c \in Workers : AddInsertBlock(c, FALSE)
    \/ \E c \in Workers : AddIdBlock(c, "none")
    \/ \E c \in Workers : AddInsertFile(c, FALSE)
    \/ \E c \in Workers : AddCommit(c)
    \/ \E req \in TransferRequest : Records(req, FALSE)

\* the database may also fail any statement for another reason
CatFault ==
    \/ \E c \in Workers, en \in CatalogEntry : AddBegin(c, en, TRUE)
    \/ \E c \in Workers : AddInsertDataset(c, TRUE)
    \/ \E c \in Workers, f \in {"query", "scan", "next"} : AddIdDataset(c, f)
    \/ \E c \in Workers : AddInsertBlock(c, TRUE)
    \/ \E c \in Workers, f \in {"query", "scan", "next"} : AddIdBlock(c, f)
    \/ \E c \in Workers : AddInsertFile(c, TRUE)
    \/ \E req \in TransferRequest : Records(req, TRUE)


(***************************************************************************)
(* The agent mesh.  Every agent is a process that runs Server: it          *)
(* registers itself (registerAtAgents), opens its catalog and then         *)
(* listens.  A request of one agent to another is one step: the request,   *)
(* the handler of the peer and the response.  The handlers of /register    *)
(* and /agents and utils.FetchResponse are not among the source files and  *)
(* are modelled from the specification.                                    *)
(***************************************************************************)
Agents == {"A", "B", "C"}

\* config.Name of an agent as its site sets it, _alias, and config.Url
ConfigName(a) == "T3_" \o a
Alias(a) == _alias[a]
Url(a) == "http://" \o a \o ":8989"

\* another address that leads to the same agent
AltUrl(a) == "http://" \o a \o ".local:8989"

\* the agent an address leads to
Route(addr) ==
    IF \E a \in Agents : Url(a) = addr
    THEN CHOOSE a \in Agents : Url(a) = addr
    ELSE IF \E a \in Agents : AltUrl(a) = addr
         THEN CHOOSE a \in Agents : AltUrl(a) = addr
         ELSE "nobody"

\* the bootstrap addresses an agent can be started with; "" is none
BootAddrs == {""} \cup {Url(a) : a \in Agents}

\* a bootstrap address that is not the url the peer is configured with
AltBootAddrs == {AltUrl("A")}

\* a name an agent can be misconfigured with: the name of another agent
OtherNames(a) == IF a = "C" THEN {ConfigName("B")} ELSE {}

\* config.Catalog of an agent: a catalog file, or a directory
Catalogs(a) == IF a = "C" THEN {"file", "dir"} ELSE {"file"}

\* model.TFC, model.DB and model.DBSQL before Server sets them
NoCatalog == [Type |-> "", DB |-> "nil", DBSQL |-> "nil"]

\* an empty membership table
NoAgents == [x \in {} |-> ""]

\* the responses of utils.FetchResponse: the peer answered 200, the
\* connection was refused, and what else a request can end in
RespOK == [StatusCode |-> 200, Error |-> Nil, handled |-> TRUE]
RespRefused == [StatusCode |-> 0, Error |-> "connection refused", handled |-> FALSE]
RespFaults ==
    {[StatusCode |-> 204, Error |-> Nil, handled |-> TRUE],
     [StatusCode |-> 500, Error |-> Nil, handled |-> FALSE],
     [StatusCode |-> 200, Error |-> "unexpected EOF", handled |-> TRUE],
     [StatusCode |-> 0, Error |-> "timeout", handled |-> FALSE]}

\* an agent's process runs and accepts requests
Up(a) == a \in Agents /\ listening[a] /\ mpc[a] # "fatal"

\* the response of a peer when nothing fails on the way
Respond(addr) == IF Up(Route(addr)) THEN RespOK ELSE RespRefused

\* RegisterAgentHandler on the peer: upsert alias -> url
Upsert(table, alias, url) ==
    [x \in DOMAIN table \cup {alias} |-> IF x = alias THEN url ELSE table[x]]

\* a payload with the url and the alias in each other's place
AgentInfoSwapped(a) == [Agent |-> Alias(a), Alias |-> Url(a)]

\* register: params := AgentInfo{Agent: _myself, Alias: _alias}
AgentInfo(a) == [Agent |-> Url(a), Alias |-> Alias(a)]

\* the membership tables after the peer at addr handled (or did not handle)
\* the registration request with the payload params
Registered(addr, params, resp) ==
    IF resp.handled
    THEN [agents EXCEPT ![Route(addr)] = Upsert(@, params.Alias, params.Agent)]
    ELSE agents

\* a check of the response that accepts every 2xx status
registerErrAny2xx(resp) ==
    IF resp.StatusCode < 200 \/ resp.StatusCode > 299
    THEN "Response " \o resp.Error
    ELSE resp.Error

\* register: the error it returns for the response of the POST
registerErr(resp) ==
    IF resp.StatusCode # 200
    THEN "Response " \o resp.Error
    ELSE resp.Error

\* the request registration sent and what became of it
Sent(addr, path, resp) ==
    [to |-> addr, path |-> path, up |-> Up(Route(addr)),
     StatusCode |-> resp.StatusCode, Error |-> resp.Error]

\* log.Fatal: the process of agent a ends
Fatal(a, at) ==
    /\ mpc' = [mpc EXCEPT ![a] = "fatal"]
    /\ listening' = [listening EXCEPT ![a] = FALSE]
    /\ diedAt' = [diedAt EXCEPT ![a] = at]

\* Server(config, aName) is called in a process that is not running yet
Start(a, boot) ==
    /\ mpc[a] = "off"
    /\ mpc' = [mpc EXCEPT ![a] = "self"]
    /\ aName' = [aName EXCEPT ![a] = boot]
    /\ upAtStart' = [upAtStart EXCEPT ![a] = {x \in Agents : Up(x)}]
    /\ _alias' = [_alias EXCEPT ![a] = ConfigName(a)]
    /\ UNCHANGED <<agents, todo, listening, sent, returned, diedAt, catalog, bare>>
    /\ UNCHANGED <<catVars, deferVars>>

\* Server(config, aName) with a config.Name that is another agent's, or
\* with the bootstrap peer given by another address
StartAs(a, boot, name) ==
    /\ mpc[a] = "off"
    /\ name # ConfigName(a) \/ boot \in AltBootAddrs
    /\ mpc' = [mpc EXCEPT ![a] = "self"]
    /\ aName' = [aName EXCEPT ![a] = boot]
    /\ upAtStart' = [upAtStart EXCEPT ![a] = {x \in Agents : Up(x)}]
    /\ _alias' = [_alias EXCEPT ![a] = name]
    /\ UNCHANGED <<agents, todo, listening, sent, returned, diedAt, catalog, bare>>
    /\ UNCHANGED <<catVars, deferVars>>

\* Server is called once more in a process that is serving
Restart(a) ==
    /\ mpc[a] = "serving"
    /\ mpc' = [mpc EXCEPT ![a] = "self"]
    /\ UNCHANGED <<aName, agents, todo, listening, sent, returned, diedAt,
                   upAtStart, _alias, catalog, bare>>
    /\ UNCHANGED <<catVars, deferVars>>

\* a self-registration that does not look for its own alias
SelfKnownNever(a) == FALSE

\* registerAtAgents: _, ok := _agents[_alias]
SelfKnown(a) == Alias(a) \in DOMAIN agents[a]

\* registerAtAgents: register itself
RegisterSelf(a) ==
    /\ mpc[a] = "self"
    /\ IF SelfKnown(a)
       THEN /\ Fatal(a, "self")
            /\ UNCHANGED <<agents, todo>>
       ELSE /\ agents' = [agents EXCEPT ![a] = Upsert(@, Alias(a), Url(a))]
            /\ IF aName[a] # "" /\ Len(aName[a]) > 0
               THEN /\ mpc' = [mpc EXCEPT ![a] = "post"]
                    /\ todo' = todo
               ELSE /\ mpc' = [mpc EXCEPT ![a] = "announce"]
                    /\ todo' = [todo EXCEPT ![a] = DOMAIN agents'[a]]
            /\ UNCHANGED <<listening, diedAt>>
    /\ bare' = bare \cup {a}
    /\ UNCHANGED <<aName, sent, returned, upAtStart, _alias, catalog>>
    /\ UNCHANGED <<catVars, deferVars>>

\* registerAtAgents: err := register(aName, _alias, _myself)
RegisterAtBootstrap(a, resp) ==
    /\ mpc[a] = "post"
    /\ sent' = [sent EXCEPT ![a] = Append(@, Sent(aName[a], "register", resp))]
    /\ agents' = Registered(aName[a], AgentInfo(a), resp)
    /\ IF registerErr(resp) # Nil
       THEN Fatal(a, "post")
       ELSE /\ mpc' = [mpc EXCEPT ![a] = "fetch"]
            /\ UNCHANGED <<listening, diedAt>>
    /\ UNCHANGED <<aName, todo, returned, upAtStart, _alias, catalog, bare>>
    /\ UNCHANGED <<catVars, deferVars>>

\* a merge in which the remote entry replaces the local one
MergeRemoteWins(local, remote) ==
    [x \in DOMAIN local \cup DOMAIN remote |->
        IF x \in DOMAIN remote THEN remote[x] ELSE local[x]]

\* a merge whose test is inverted: only the aliases that are known are set
MergeKnownOnly(local, remote) ==
    [x \in DOMAIN local |-> IF x \in DOMAIN remote THEN remote[x] ELSE local[x]]

\* registerAtAgents: the aliases of the remote table that are not known are added
Merge(local, remote) ==
    [x \in DOMAIN local \cup DOMAIN remote |->
        IF x \in DOMAIN local THEN local[x] ELSE remote[x]]

\* json.Unmarshal(resp.Data, &remoteAgents) gives no error: the peer's
\* handler answered with its table
Unmarshals(resp) == resp.handled /\ resp.StatusCode = 200 /\ resp.Error = Nil

\* a registration that ends the process when the table cannot be parsed
FetchFatalStrict(resp) == ~Unmarshals(resp)

\* registerAtAgents: if e == nil { ... } has no else, and resp.StatusCode
\* and resp.Error of the GET are not looked at
FetchFatal(resp) == FALSE

\* registerAtAgents: GET aName/agents, json.Unmarshal and the merge
FetchAgents(a, resp) ==
    /\ mpc[a] = "fetch"
    /\ sent' = [sent EXCEPT ![a] = Append(@, Sent(aName[a], "agents", resp))]
    /\ IF FetchFatal(resp)
       THEN /\ Fatal(a, "fetch")
            /\ UNCHANGED <<returned, agents, todo>>
       ELSE /\ LET parsed == Unmarshals(resp)
                   remote == IF parsed THEN agents[Route(aName[a])] ELSE NoAgents
               IN  /\ returned' = [returned EXCEPT ![a] = remote]
                   /\ agents' = [agents EXCEPT ![a] =
                          IF parsed THEN Merge(@, remote) ELSE @]
            /\ todo' = [todo EXCEPT ![a] = DOMAIN agents'[a]]
            /\ mpc' = [mpc EXCEPT ![a] = "announce"]
            /\ UNCHANGED <<listening, diedAt>>
    /\ UNCHANGED <<aName, upAtStart, _alias, catalog, bare>>
    /\ UNCHANGED <<catVars, deferVars>>

\* an announcement loop that leaves out the bootstrap peer only
SkipsBootstrapOnly(a, alias) == agents[a][alias] = aName[a]

\* registerAtAgents: if agent == aName || alias == _alias { continue }
Skips(a, alias) == agents[a][alias] = aName[a] \/ alias = Alias(a)

\* registerAtAgents: one iteration of the loop over _agents; the error
\* register returns is dropped
Announce(a, alias, resp) ==
    /\ mpc[a] = "announce"
    /\ alias \in todo[a]
    /\ todo' = [todo EXCEPT ![a] = @ \ {alias}]
    /\ IF Skips(a, alias)
       THEN UNCHANGED <<agents, sent>>
       ELSE /\ sent' = [sent EXCEPT ![a] =
                   Append(@, Sent(agents[a][alias], "register", resp))]
            /\ agents' = Registered(agents[a][alias], AgentInfo(a), resp)
    /\ UNCHANGED <<mpc, aName, listening, returned, diedAt, upAtStart, _alias,
                   catalog, bare>>
    /\ UNCHANGED <<catVars, deferVars>>

\* registerAtAgents returns
AnnounceDone(a) ==
    /\ mpc[a] = "announce"
    /\ todo[a] = {}
    /\ mpc' = [mpc EXCEPT ![a] = "catalog"]
    /\ UNCHANGED <<aName, agents, todo, listening, sent, returned, diedAt, upAtStart,
                   _alias, catalog, bare>>
    /\ UNCHANGED <<catVars, deferVars>>

\* a startup that goes on when db.Ping fails
CatalogFatalNoPing(outcome) == outcome \in {"read", "parse", "open"}

\* Server: the log.Fatalf calls of the catalog block; outcome is the first
\* call that fails of ioutil.ReadFile ("read"), json.Unmarshal ("parse"),
\* sql.Open ("open") and db.Ping ("ping"), or "ok"
CatalogFatal(outcome) == outcome # "ok"

\* Server, define catalog: config.Catalog is a directory
OpenDirectory(a) ==
    /\ mpc[a] = "catalog"
    /\ "dir" \in Catalogs(a)
    /\ catalog' = [catalog EXCEPT ![a].Type = "filesystem"]
    /\ mpc' = [mpc EXCEPT ![a] = "listen"]
    /\ UNCHANGED <<aName, agents, todo, listening, sent, returned, diedAt, upAtStart,
                   _alias, bare>>
    /\ UNCHANGED <<catVars, deferVars>>

\* Server, define catalog: config.Catalog is not a directory; the file is
\* read and parsed, the database is opened and pinged, and model.DB,
\* model.DBTYPE and model.DBSQL are set
OpenCatalog(a, outcome) ==
    /\ mpc[a] = "catalog"
    /\ "file" \in Catalogs(a)
    /\ IF CatalogFatal(outcome)
       THEN /\ Fatal(a, "catalog")
            /\ UNCHANGED catalog
       ELSE /\ mpc' = [mpc EXCEPT ![a] = "listen"]
            /\ catalog' = [catalog EXCEPT ![a] =
                   [Type |-> DBTYPE,
                    DB |-> IF outcome = "ok" THEN "pinged" ELSE "opened",
                    DBSQL |-> "loaded"]]
            /\ UNCHANGED <<listening, diedAt>>
    /\ UNCHANGED <<aName, agents, todo, sent, returned, upAtStart, _alias, bare>>
    /\ UNCHANGED <<catVars, deferVars>>

\* Server: the handlers are set and http.ListenAndServe accepts requests
Listen(a) ==
    /\ mpc[a] = "listen"
    /\ mpc' = [mpc EXCEPT ![a] = "serving"]
    /\ listening' = [listening EXCEPT ![a] = TRUE]
    /\ UNCHANGED <<aName, agents, todo, sent, returned, diedAt, upAtStart,
                   _alias, catalog, bare>>
    /\ UNCHANGED <<catVars, deferVars>>

MeshInit ==
    /\ mpc = [a \in Agents |-> "off"]
    /\ aName = [a \in Agents |-> ""]
    /\ agents = [a \in Agents |-> NoAgents]
    /\ todo = [a \in Agents |-> {}]
    /\ listening = [a \in Agents |-> FALSE]
    /\ sent = [a \in Agents |-> <<>>]
    /\ returned = [a \in Agents |-> NoAgents]
    /\ diedAt = [a \in Agents |-> "none"]
    /\ upAtStart = [a \in Agents |-> {}]
    /\ _alias = [a \in Agents |-> ""]
    /\ catalog = [a \in Agents |-> NoCatalog]
    /\ bare = {}

\* no request is lost: a peer that is serving answers 200, a peer that is
\* not refuses the connection
MeshNext ==
    \/ \E a \in Agents, boot \in BootAddrs : Start(a, boot)
    \/ \E a \in Agents : RegisterSelf(a)
    \/ \E a \in Agents : RegisterAtBootstrap(a, Respond(aName[a]))
    \/ \E a \in Agents : FetchAgents(a, Respond(aName[a]))
    \/ \E a \in Agents : \E alias \in todo[a] :
          Announce(a, alias, Respond(agents[a][alias]))
    \/ \E a \in Agents : AnnounceDone(a)
    \/ \E a \in Agents : OpenDirectory(a)
    \/ \E a \in Agents : OpenCatalog(a, "ok")
    \/ \E a \in Agents : Listen(a)

\* requests may fail, the catalog may not open, and Server may be called
\* again in a process that is serving
MeshFault ==
    \/ \E a \in Agents, r \in RespFaults :
          Up(Route(aName[a])) /\ RegisterAtBootstrap(a, r)
    \/ \E a \in Agents, r \in RespFaults :
          Up(Route(aName[a])) /\ FetchAgents(a, r)
    \/ \E a \in Agents : \E alias \in todo[a], r \in RespFaults :
          ~Skips(a, alias) /\ Up(Route(agents[a][alias])) /\ Announce(a, alias, r)
    \/ \E a \in Agents, o \in {"read", "parse", "open", "ping"} : OpenCatalog(a, o)
    \/ \E a \in Agents : Restart(a)

\* an agent may be started under the name of another agent, or with its
\* bootstrap peer given by another address
MeshConfig ==
    \E a \in Agents, boot \in BootAddrs \cup AltBootAddrs :
        \E name \in {ConfigName(a)} \cup OtherNames(a) : StartAs(a, boot, name)

(***************************************************************************)
(* utils.GoDeferFunc.  A caller makes the unbuffered channel ch and spawns *)
(* a goroutine that runs f under defer ErrPropagate2Channel(api, ch), then *)
(* receives from ch.  A send on ch and the receive are one step.           *)
(***************************************************************************)
\* the goroutines of the process that call GoDeferFunc
Callers == {"g1", "g2"}

\* the argument api
Apis == {"", "Transfer"}

\* the values f panics with; one of them is the text of the success message
PanicValues == {"boom", "ok"}

\* what f does: it returns, it panics with a value, it panics with nil, or
\* it ends its goroutine with runtime.Goexit
Funcs ==
    {[kind |-> "return", value |-> "-"], [kind |-> "panicnil", value |-> "-"],
     [kind |-> "goexit", value |-> "-"]}
    \cup {[kind |-> "panic", value |-> v] : v \in PanicValues}

NoFunc == [kind |-> "-", value |-> "-"]

\* no panic in progress, and the nil interface value
NoPanic == "none"
NilValue == "<nil>"

\* the value of a panic(nil) as recover sees it: nil in a build whose
\* runtime keeps nil panics, a *runtime.PanicNilError otherwise
PanicNil == "panic(nil)"
PanicNilError == "panic called with nil argument (obsolete)"
RecoverNil == {NilValue, PanicNilError}

\* what recover() can return in the deferred call
Recovered(p) ==
    CASE p = NoPanic -> {NilValue}
      [] p = PanicNil -> RecoverNil
      [] OTHER -> {p}

\* fmt.Sprintf("%s:%s", api, err)
Sprintf(a, v) == a \o ":" \o v

\* GoDeferFunc: if err != nil && err != "ok" { panic(err) }
CallerPanics(v) == v # NilValue /\ v # "ok"

\* GoDeferFunc(api, f): ch := make(chan interface{}); go func() {...}()
GoDeferFunc(g, a, fn) ==
    /\ gpc[g] = "idle"
    /\ gpc' = [gpc EXCEPT ![g] = "recv"]
    /\ fpc' = [fpc EXCEPT ![g] = "f"]
    /\ apiOf' = [apiOf EXCEPT ![g] = a]
    /\ fnOf' = [fnOf EXCEPT ![g] = fn]
    /\ UNCHANGED <<panicking, chSent, chRecv, got>>
    /\ UNCHANGED <<catVars, meshVars>>

\* the spawned goroutine: f()
RunF(g) ==
    /\ fpc[g] = "f"
    /\ CASE fnOf[g].kind = "return" ->
               /\ fpc' = [fpc EXCEPT ![g] = "send_ok"]
               /\ UNCHANGED panicking
         [] fnOf[g].kind = "panic" ->
               /\ fpc' = [fpc EXCEPT ![g] = "deferred"]
               /\ panicking' = [panicking EXCEPT ![g] = fnOf[g].value]
         [] fnOf[g].kind = "panicnil" ->
               /\ fpc' = [fpc EXCEPT ![g] = "deferred"]
               /\ panicking' = [panicking EXCEPT ![g] = PanicNil]
         [] fnOf[g].kind = "goexit" ->
               /\ fpc' = [fpc EXCEPT ![g] = "deferred"]
               /\ UNCHANGED panicking
    /\ UNCHANGED <<gpc, apiOf, fnOf, chSent, chRecv, got>>
    /\ UNCHANGED <<catVars, meshVars>>

\* the spawned goroutine: ch <- "ok", met by the caller's err := <-ch
SendOk(g) ==
    /\ fpc[g] = "send_ok"
    /\ gpc[g] = "recv"
    /\ chSent' = [chSent EXCEPT ![g] = @ + 1]
    /\ chRecv' = [chRecv EXCEPT ![g] = @ + 1]
    /\ got' = [got EXCEPT ![g] = "ok"]
    /\ fpc' = [fpc EXCEPT ![g] = "deferred"]
    /\ gpc' = [gpc EXCEPT ![g] = "check"]
    /\ UNCHANGED <<apiOf, fnOf, panicking>>
    /\ UNCHANGED <<catVars, meshVars>>

\* ErrPropagate2Channel(api, ch), deferred: if err := recover(); err != nil;
\* r is what recover returned.  A recovered panic is over; without a
\* message to send the goroutine ends here
ErrPropagate2Channel(g, r) ==
    /\ fpc[g] = "deferred"
    /\ r \in Recovered(panicking[g])
    /\ IF r # NilValue
       THEN /\ fpc' = [fpc EXCEPT ![g] = "send_err"]
            /\ panicking' = [panicking EXCEPT ![g] = r]
       ELSE /\ fpc' = [fpc EXCEPT ![g] = "done"]
            /\ panicking' = [panicking EXCEPT ![g] = NoPanic]
    /\ UNCHANGED <<gpc, apiOf, fnOf, chSent, chRecv, got>>
    /\ UNCHANGED <<catVars, meshVars>>

\* ErrPropagate2Channel: ch <- fmt.Sprintf("%s:%s", api, err), met by the
\* caller's err := <-ch
SendErr(g) ==
    /\ fpc[g] = "send_err"
    /\ gpc[g] = "recv"
    /\ chSent' = [chSent EXCEPT ![g] = @ + 1]
    /\ chRecv' = [chRecv EXCEPT ![g] = @ + 1]
    /\ got' = [got EXCEPT ![g] = Sprintf(apiOf[g], panicking[g])]
    /\ fpc' = [fpc EXCEPT ![g] = "done"]
    /\ gpc' = [gpc EXCEPT ![g] = "check"]
    /\ panicking' = [panicking EXCEPT ![g] = NoPanic]
    /\ UNCHANGED <<apiOf, fnOf>>
    /\ UNCHANGED <<catVars, meshVars>>

\* GoDeferFunc: panic(err), or return
GoDeferFuncEnd(g) ==
    /\ gpc[g] = "check"
    /\ gpc' = [gpc EXCEPT ![g] = IF CallerPanics(got[g]) THEN "panicked" ELSE "returned"]
    /\ UNCHANGED <<fpc, apiOf, fnOf, panicking, chSent, chRecv, got>>
    /\ UNCHANGED <<catVars, meshVars>>

DeferInit ==
    /\ gpc = [g \in Callers |-> "idle"]
    /\ fpc = [g \in Callers |-> "none"]
    /\ apiOf = [g \in Callers |-> ""]
    /\ fnOf = [g \in Callers |-> NoFunc]
    /\ panicking = [g \in Callers |-> NoPanic]
    /\ chSent = [g \in Callers |-> 0]
    /\ chRecv = [g \in Callers |-> 0]
    /\ got = [g \in Callers |-> NilValue]

DeferNext ==
    \/ \E g \in Callers, a \in Apis, fn \in Funcs : GoDeferFunc(g, a, fn)
    \/ \E g \in Callers : RunF(g)
    \/ \E g \in Callers : SendOk(g)
    \/ \E g \in Callers, r \in RecoverNil \cup PanicValues : ErrPropagate2Channel(g, r)
    \/ \E g \in Callers : SendErr(g)
    \/ \E g \in Callers : GoDeferFuncEnd(g)

Init == CatInit /\ MeshInit /\ DeferInit

SpecCat == Init /\ [][CatNext]_vars

SpecCatFault == Init /\ [][CatNext \/ CatFault]_vars

SpecMesh == Init /\ [][MeshNext]_vars

SpecMeshFault == Init /\ [][MeshNext \/ MeshFault]_vars

SpecMeshConfig == Init /\ [][MeshNext \/ MeshConfig]_vars

SpecDefer == Init /\ [][DeferNext]_vars

(***************************************************************************)
(* Properties of the catalog.                                              *)
(***************************************************************************)

\* the filter that names an entry
FilterOf(en) == [File |-> en.Lfn, Block |-> en.Block, Dataset |-> en.Dataset]

\* an entry matches a filter: it equals every field of the filter that is not empty
Matches(en, req) ==
    /\ req.File # "" => en.Lfn = req.File
    /\ req.Block # "" => en.Block = req.Block
    /\ req.Dataset # "" => en.Dataset = req.Dataset

AddAtomic ==
    \A c \in Workers :
        /\ tx[c] = "open" /\ apc[c] # "fatal" => wrote[c] = {}
        /\ apc[c] = "fatal" => wrote[c] = {}

\* C3: the file insert tolerates a uniqueness conflict only.  Add goes on to
\* commit after the file insert only if the insert gave no error or a
\* uniqueness conflict, and a uniqueness conflict of the file insert is
\* never fatal.
FileInsertToleratesOnlyUnique ==
    \A c \in Workers :
        /\ apc[c] = "commit" => err[c] \in {Nil, UniqueErr}
        /\ apc[c] = "fatal" /\ fatalAt = "insert_files" => err[c] = OtherErr

\* C4: concurrent Add calls do not corrupt the catalog.  While the database
\* executes every statement, no interleaving of the statements of the Add
\* calls stops a call by a fatal error; a call that has looked an id up
\* holds the id of the one row with its name; and the file rows a call
\* inserted carry the ids of the rows named by its Dataset and its Block.
ConcurrentAddsConsistent ==
    /\ alive
    /\ \A c \in Workers :
        /\ apc[c] \in {"insert_blocks", "id_blocks", "insert_files", "commit"} =>
              NameRows(datasets, entry[c].Dataset) = {did[c]}
        /\ apc[c] \in {"insert_files", "commit"} =>
              NameRows(blocks, entry[c].Block) = {bid[c]}
        /\ \A w \in wrote[c] :
              w.table = "files" =>
                 /\ NameRows(datasets, entry[c].Dataset) = {files[w.id].datasetid}
                 /\ NameRows(blocks, entry[c].Block) = {files[w.id].blockid}

\* C4 witness: two calls that name the same new dataset and block have run
\* interleaved: one inserted the dataset row, the other the block row, and
\* both inserted their file row
ConcurrentAddsWitness ==
    \E c1, c2 \in Workers :
        /\ c1 # c2
        /\ apc[c1] = "commit" /\ apc[c2] = "commit"
        /\ entry[c1].Dataset = entry[c2].Dataset
        /\ entry[c1].Block = entry[c2].Block
        /\ \E w \in wrote[c1] : w.table = "datasets"
        /\ \E w \in wrote[c2] : w.table = "blocks"
        /\ \E w \in wrote[c1] : w.table = "files"
        /\ \E w \in wrote[c2] : w.table = "files"

\* C5: Records filters correctly.  While the database executes every
\* statement, a Records call returns exactly the entries that were added
\* to the catalog and match the filter, each of them once.
RecordsFilterCorrect ==
    recReq # NoRequest =>
        LET Test(en) == Matches(en, recReq)
        IN  recOut = SelectSeq(stored, Test)

\* C5 witness: a filter with two fields given has selected an entry of the
\* catalog and left another out
RecordsFilterWitness ==
    /\ recReq # NoRequest
    /\ recReq.File # "" /\ recReq.Dataset # "" /\ recReq.Block = ""
    /\ Len(recOut) = 1
    /\ Len(stored) = 2

\* C6 as stated: after Add(e) returned for an entry whose (Dataset, Block,
\* Lfn) was not in the catalog, Records with the filter that names e returns
\* e and nothing else.
AddRecordsRoundTrip ==
    \A c \in Workers :
        prev[c] # NoEntry /\ prevAbsent[c] =>
            RecordsOut(FilterOf(prev[c])) = <<prev[c]>>

\* C6 as amended: the same, for an entry whose Dataset, Block and Lfn are
\* not the empty string.
AddRecordsRoundTripNamed ==
    \A c \in Workers :
        /\ prev[c] # NoEntry /\ prevAbsent[c]
        /\ prev[c].Dataset # "" /\ prev[c].Block # "" /\ prev[c].Lfn # ""
        => RecordsOut(FilterOf(prev[c])) = <<prev[c]>>

\* C6 witness: an entry was added whose block was already named under
\* another dataset, with a file of the same Lfn
AddRecordsRoundTripWitness ==
    \E c \in Workers :
        /\ prevAbsent[c]
        /\ prev[c].Dataset = "d2" /\ prev[c].Block = "b1" /\ prev[c].Lfn = "l1"
        /\ Len(stored) = 2
        /\ stored[1].Dataset = "d1" /\ stored[1].Block = "b1" /\ stored[1].Lfn = "l1"

(***************************************************************************)
(* Properties of the mesh.                                                 *)
(***************************************************************************)

\* registerAtAgents has returned in the process of agent a
JoinDone(a) == mpc[a] \in {"catalog", "listen", "serving"}

\* the table that holds every agent of a set
TableOf(S) == [x \in {Alias(a) : a \in S} |-> Url(CHOOSE a \in S : Alias(a) = x)]

\* agent x holds the entry of agent n
Knows(x, n) == Alias(n) \in DOMAIN agents[x] /\ agents[x][Alias(n)] = Url(n)

\* a started without a bootstrap, b joined through a, and c joined through
\* a when b was serving; both joins are complete
SequentialJoins(a, b, c) ==
    /\ Cardinality({a, b, c}) = 3
    /\ Up(a) /\ aName[a] = ""
    /\ aName[b] = Url(a) /\ JoinDone(b)
    /\ aName[c] = Url(a) /\ JoinDone(c)
    /\ b \in upAtStart[c]

\* C7: mesh convergence for sequential joins.  With a started without a
\* bootstrap, b joined through a, and c joined through a when b was
\* serving, once c's join is complete the tables of a, b and c are the one
\* table that holds the alias -> url of the three.
MeshConvergence ==
    \A a, b, c \in Agents :
        SequentialJoins(a, b, c) =>
            /\ agents[a] = TableOf({a, b, c})
            /\ agents[b] = TableOf({a, b, c})
            /\ agents[c] = TableOf({a, b, c})

\* C7 witness: the three agents serve after such a sequence of joins
MeshConvergenceWitness ==
    \E a, b, c \in Agents :
        /\ SequentialJoins(a, b, c)
        /\ \A x \in Agents : mpc[x] = "serving"

\* agent n announced itself to agent x when x was serving, or x is the
\* bootstrap peer of n
ReachedServing(n, x) ==
    \/ x = Route(aName[n])
    \/ \E i \in 1..Len(sent[n]) :
          sent[n][i].path = "register" /\ sent[n][i].to = Url(x) /\ sent[n][i].up

DuplicateSelfAliasFatal ==
    [][\A a \in Agents :
          /\ (mpc[a] = "self" /\ Alias(a) \in DOMAIN agents[a] /\ mpc'[a] # "self")
             => /\ mpc'[a] = "fatal"
                /\ diedAt'[a] = "self"
                /\ agents'[a] = agents[a]
                /\ sent' = sent
                /\ ~listening'[a]
          /\ mpc[a] = "fatal" => mpc'[a] = "fatal" /\ ~listening'[a]]_vars

\* C9 witness: a process was ended by its self-registration
DuplicateSelfAliasWitness ==
    \E a \in Agents :
        /\ mpc[a] = "fatal" /\ diedAt[a] = "self"
        /\ Alias(a) \in DOMAIN agents[a]

\* the POST of agent a to its bootstrap peer has been answered
BootstrapAnswered(a) ==
    /\ aName[a] # ""
    /\ Len(sent[a]) >= 1
    /\ sent[a][1].path = "register"

\* the join of agent a ended at the POST to its bootstrap peer: nothing was
\* fetched, nobody was told, and the process never served
EndedAtBootstrap(a) ==
    /\ mpc[a] = "fatal" /\ diedAt[a] = "post"
    /\ Len(sent[a]) = 1
    /\ returned[a] = NoAgents
    /\ ~listening[a]

\* C10 as stated: the join ends at the POST to the bootstrap peer when the
\* POST ends in a transport error or a status that is not 2xx, and goes on
\* when the status is 2xx and there is no transport error.
BootstrapFailureFatal2xx ==
    \A a \in Agents :
        BootstrapAnswered(a) =>
            IF sent[a][1].Error = Nil /\ sent[a][1].StatusCode \in 200..299
            THEN diedAt[a] # "post" /\ mpc[a] # "post"
            ELSE EndedAtBootstrap(a)

\* C10 as amended: the join ends at the POST to the bootstrap peer when
\* the POST ends in an error or a status that is not 200, and goes on when
\* the status is 200 and there is no error.
BootstrapFailureFatal ==
    \A a \in Agents :
        BootstrapAnswered(a) =>
            IF sent[a][1].Error = Nil /\ sent[a][1].StatusCode = 200
            THEN diedAt[a] # "post" /\ mpc[a] # "post"
            ELSE EndedAtBootstrap(a)

\* C10 witness: one agent's join ended at a 204 of its bootstrap peer,
\* another agent's join went on after a 200
BootstrapFailureWitness ==
    \E a, b \in Agents :
        /\ BootstrapAnswered(a) /\ sent[a][1].StatusCode = 204
        /\ EndedAtBootstrap(a)
        /\ BootstrapAnswered(b) /\ sent[b][1].StatusCode = 200
        /\ sent[b][1].Error = Nil /\ JoinDone(b)

\* the POST of agent a to its bootstrap peer, when it was given one, was
\* answered with status 200 and no error
BootstrapPassed(a) ==
    aName[a] # "" =>
        /\ BootstrapAnswered(a)
        /\ sent[a][1].StatusCode = 200 /\ sent[a][1].Error = Nil

\* a process that ended stays ended and accepts no request
FatalIsFinal ==
    \A a \in Agents :
        /\ diedAt[a] # "none" => mpc[a] = "fatal" /\ ~listening[a]
        /\ diedAt[a] = "none" => mpc[a] # "fatal"

MergeFirstWriterWins ==
    /\ [][\A a \in Agents :
            mpc[a] = "fetch" /\ mpc'[a] = "announce" =>
               /\ \A x \in DOMAIN agents[a] : agents'[a][x] = agents[a][x]
               /\ DOMAIN agents'[a] = DOMAIN agents[a] \cup DOMAIN returned'[a]
               /\ \A x \in DOMAIN returned'[a] \ DOMAIN agents[a] :
                     agents'[a][x] = returned'[a][x]]_vars
    /\ [](\A a \in Agents :
             mpc[a] \in {"announce", "catalog", "listen"} =>
                agents[a][Alias(a)] = Url(a))

\* C12 witness: the table the bootstrap peer returned listed the agent's
\* own alias with the url of another agent, and listed an alias the agent
\* did not know; the agent's join is over
MergeFirstWriterWinsWitness ==
    \E a \in Agents :
        /\ mpc[a] \in {"catalog", "listen"}
        /\ Alias(a) \in DOMAIN returned[a]
        /\ returned[a][Alias(a)] # Url(a)
        /\ agents[a][Alias(a)] = Url(a)
        /\ Cardinality(DOMAIN agents[a]) = 2

\* the requests of agent a's announcement loop: its POSTs to /register
\* after the one to the bootstrap peer
Announcements(a) ==
    {i \in (IF aName[a] # "" THEN 2 ELSE 1)..Len(sent[a]) :
        sent[a][i].path = "register"}

\* C13: announcement targets.  When the registration of an agent has
\* returned, its announcement loop has sent no POST to the bootstrap peer
\* and none to the agent itself, and exactly one POST to every peer of its
\* table that is neither of the two.
AnnouncementTargets ==
    \A a \in Agents :
        mpc[a] \in {"catalog", "listen"} =>
           /\ \A i \in Announcements(a) :
                 Route(sent[a][i].to) \notin {a, Route(aName[a])}
           /\ \A x \in DOMAIN agents[a] :
                 Route(agents[a][x]) \notin {a, Route(aName[a])} =>
                    Cardinality({i \in Announcements(a) :
                                    sent[a][i].to = agents[a][x]}) = 1

\* C14: singleton mesh.  An agent that was given no bootstrap address sends
\* no request, and when its registration has returned its table holds
\* exactly its own alias -> url.
SingletonMesh ==
    \A a \in Agents :
        aName[a] = "" =>
           /\ sent[a] = <<>>
           /\ mpc[a] \in {"catalog", "listen"} =>
                 agents[a] = [x \in {Alias(a)} |-> Url(a)]

\* C14 witness: the registration of an agent without a bootstrap address
\* has returned while another agent was serving
SingletonMeshWitness ==
    \E a \in Agents : \E b \in Agents \ {a} :
        /\ aName[a] = "" /\ mpc[a] = "listen"
        /\ Up(b)
        /\ DOMAIN agents[a] = {Alias(a)}

\* C15: the membership table is accessed under one lock.  No agent's
\* registration has read or written _agents while it held no lock.
MembershipTableLocked ==
    \A a \in Agents : a \notin bare

\* C16: Records never signals an error.  A Records call whose query failed,
\* and one whose filter no entry of the catalog matches, returns the empty
\* sequence; a Records call leaves the process running and the tables as
\* they were.
RecordsNeverFails ==
    /\ [](recReq # NoRequest =>
             LET Test(en) == Matches(en, recReq)
             IN  recErr # Nil \/ SelectSeq(stored, Test) = <<>> => recOut = <<>>)
    /\ [][recReq = NoRequest /\ recReq' # NoRequest =>
             alive' /\ dbVars' = dbVars]_vars

\* C16 witness: the query of a Records call failed over a catalog with an
\* entry that matches the filter; the call returned the empty sequence
RecordsNeverFailsWitness ==
    /\ recReq # NoRequest /\ recErr # Nil /\ recOut = <<>>
    /\ \E i \in 1..Len(stored) : Matches(stored[i], recReq)
    /\ alive /\ Len(files) > 0

\* C17: referential integrity of the catalog.  Every file row holds the id
\* of a dataset row and the id of a block row, and these rows are named by
\* the Dataset and the Block of the entry the file row was inserted for; no
\* file row holds the id 0 that did and bid have before a lookup sets them.
ReferentialIntegrity ==
    \A i \in 1..Len(files) :
        /\ files[i].datasetid # 0 /\ files[i].blockid # 0
        /\ Joinable(files[i])
        /\ datasets[files[i].datasetid] = stored[i].Dataset
        /\ blocks[files[i].blockid] = stored[i].Block

\* C18: the database handle is set when the agent serves.  In the process
\* of an agent that accepts requests, model.DB is a database handle and
\* model.DBSQL holds the statements.
CatalogInitialized ==
    \A a \in Agents :
        listening[a] => catalog[a].DB # "nil" /\ catalog[a].DBSQL = "loaded"

\* the GET of agent a for the table of its bootstrap peer failed: it was
\* not answered with status 200 and no error
FetchFailed(a) ==
    /\ Len(sent[a]) >= 2 /\ sent[a][2].path = "agents"
    /\ ~(sent[a][2].StatusCode = 200 /\ sent[a][2].Error = Nil)

AddNeverReturnsError ==
    /\ [](\A c \in Workers : ret[c] \in {"none", Nil})
    /\ [][\A c \in Workers :
             /\ (/\ apc[c] \in {"idle", "insert_datasets", "insert_blocks"}
                 /\ apc'[c] # apc[c]
                 /\ e'[c] \notin {Nil, UniqueErr})
                => apc'[c] = "fatal" /\ ~alive' /\ ret'[c] = ret[c]
             /\ (/\ apc[c] \in {"id_datasets", "id_blocks"}
                 /\ apc'[c] # apc[c]
                 /\ err'[c] # Nil)
                => apc'[c] = "fatal" /\ ~alive' /\ ret'[c] = ret[c]
             /\ ~alive => apc'[c] = apc[c] /\ ret'[c] = ret[c]]_vars

\* C20 witness: an Add call returned nil, and the block insert of another
\* call failed and ended the process
AddNeverReturnsErrorWitness ==
    \E c1, c2 \in Workers :
        /\ ret[c1] = Nil
        /\ apc[c2] = "fatal" /\ fatalAt = "insert_blocks" /\ e[c2] = OtherErr
        /\ ~alive

\* the spawned goroutine of caller g ended without a message and g waits
\* for one: g is blocked forever
Blocked(g) == gpc[g] = "recv" /\ fpc[g] = "done"

\* C21: GoDeferFunc never deadlocks and mirrors the outcome of f.  No
\* caller is left waiting for a message that will not come; at most one
\* message is sent, and a call that is over had one message sent and one
\* received; the call returned only if f returned and panicked only if f
\* panicked, and a spawned goroutine that is over left its caller a message.
GoDeferFuncMirrors ==
    \A g \in Callers :
        /\ ~Blocked(g)
        /\ chSent[g] <= 1 /\ chRecv[g] = chSent[g]
        /\ gpc[g] \in {"returned", "panicked"} => chSent[g] = 1
        /\ gpc[g] = "returned" => fnOf[g].kind = "return"
        /\ gpc[g] = "panicked" => fnOf[g].kind \in {"panic", "panicnil"}
        /\ fpc[g] = "done" => chSent[g] = 1

====
